---- MODULE Spec2Model ----
(***************************************************************************)
(* Model of cli/flags.rs: set_flags turns an argument vector into          *)
(* (DenoFlags, residual argv) and forwards V8 options.  The command line   *)
(* grammar is the clap 2.x App built by create_cli_app; the parser         *)
(* (App::get_matches_from) is modelled token by token as clap runs it.     *)
(*                                                                         *)
(* A Rust String is a TLA+ string.  The byte tests clap makes on a token   *)
(* (starts_with "--", starts_with "-", split at '=', the characters of a   *)
(* short cluster) are tabulated per token in Lexicon.                      *)
(* Option<T> is a sequence of length <= 1: None == <<>>, Some(x) == <<x>>. *)
(***************************************************************************)
EXTENDS Integers, Sequences, FiniteSets, TLC

\* Longest argv tail (tokens after "deno") built from CoreTokens.
MaxArgs == 3
\* Longest argv tail whose first token is one of RareTokens.
MaxRareArgs == 2

---------------------------------------------------------------------------
\* Lexical shape of the tokens of the bounded vocabulary.

LongTok(n, e, v) == [kind |-> "long", name |-> n, eq |-> e, val |-> v, chars |-> <<>>]
ShortTok(cs) == [kind |-> "short", name |-> "", eq |-> FALSE, val |-> "", chars |-> cs]
WordTok == [kind |-> "word", name |-> "", eq |-> FALSE, val |-> "", chars |-> <<>>]
DashDashTok == [kind |-> "dashdash", name |-> "", eq |-> FALSE, val |-> "", chars |-> <<>>]

Lexicon ==
     ("--version" :> LongTok("version", FALSE, ""))
  @@ ("--allow-read" :> LongTok("allow-read", FALSE, ""))
  @@ ("--allow-write" :> LongTok("allow-write", FALSE, ""))
  @@ ("--allow-net" :> LongTok("allow-net", FALSE, ""))
  @@ ("--allow-env" :> LongTok("allow-env", FALSE, ""))
  @@ ("--allow-run" :> LongTok("allow-run", FALSE, ""))
  @@ ("--allow-high-precision" :> LongTok("allow-high-precision", FALSE, ""))
  @@ ("--allow-all" :> LongTok("allow-all", FALSE, ""))
  @@ ("--no-prompt" :> LongTok("no-prompt", FALSE, ""))
  @@ ("--log-debug" :> LongTok("log-debug", FALSE, ""))
  @@ ("--reload" :> LongTok("reload", FALSE, ""))
  @@ ("--v8-options" :> LongTok("v8-options", FALSE, ""))
  @@ ("--types" :> LongTok("types", FALSE, ""))
  @@ ("--prefetch" :> LongTok("prefetch", FALSE, ""))
  @@ ("--v8-flags=a,b" :> LongTok("v8-flags", TRUE, "a,b"))
  @@ ("--v8-flags=a" :> LongTok("v8-flags", TRUE, "a"))
  @@ ("--v8-flags=" :> LongTok("v8-flags", TRUE, ""))
  @@ ("--v8-flags" :> LongTok("v8-flags", FALSE, ""))
  @@ ("--title" :> LongTok("title", FALSE, ""))
  @@ ("--help" :> LongTok("help", FALSE, ""))
  @@ ("-v" :> ShortTok(<<"v">>))
  @@ ("-A" :> ShortTok(<<"A">>))
  @@ ("-D" :> ShortTok(<<"D">>))
  @@ ("-r" :> ShortTok(<<"r">>))
  @@ ("-Dr" :> ShortTok(<<"D", "r">>))
  @@ ("-rD" :> ShortTok(<<"r", "D">>))
  @@ ("-DD" :> ShortTok(<<"D", "D">>))
  @@ ("-vADr" :> ShortTok(<<"v", "A", "D", "r">>))
  @@ ("-h" :> ShortTok(<<"h">>))
  @@ ("-V" :> ShortTok(<<"V">>))
  @@ ("-x" :> ShortTok(<<"x">>))
  @@ ("--" :> DashDashTok)
  @@ ("-" :> WordTok)
  @@ ("info" :> WordTok)
  @@ ("eval" :> WordTok)
  @@ ("fmt" :> WordTok)
  @@ ("<script>" :> WordTok)
  @@ ("gist.ts" :> WordTok)
  @@ ("X" :> WordTok)
  @@ ("deno" :> WordTok)
  @@ ("types" :> WordTok)
  @@ ("reload" :> WordTok)
  @@ ("version" :> WordTok)
  @@ ("prefetch" :> WordTok)
  @@ ("allow-all" :> WordTok)
  @@ ("allow-net" :> WordTok)
  @@ ("v8-flags" :> WordTok)
  @@ ("v8-options" :> WordTok)

Lex(t) == Lexicon[t]

---------------------------------------------------------------------------
\* The clap App declared by create_cli_app.

\* A variant of Positional without .required(true).
PositionalOptional(n, mult) == [name |-> n, multiple |-> mult, required |-> FALSE]

\* The positional of a subcommand: .takes_value(true).required(true), with
\* .multiple(true) for the files of fmt.
Positional(n, mult) == [name |-> n, multiple |-> mult, required |-> TRUE]

\* Arg::with_name(..).long(..) without takes_value: the boolean flags.
TopFlags ==
  {"version", "allow-read", "allow-write", "allow-net", "allow-env",
   "allow-run", "allow-high-precision", "allow-all", "no-prompt",
   "log-debug", "reload", "v8-options", "types", "prefetch"}

\* Arg::with_name("v8-flags").takes_value(true).require_equals(true)
TopOpts == {"v8-flags"}

create_cli_app ==
  [name |-> "deno",
   flags |-> TopFlags,
   opts |-> TopOpts,
   subcommands |-> {"info", "eval", "fmt", "<script>"},
   positionals |-> <<>>,
   external |-> TRUE,
   builtin_version |-> FALSE]

\* A subcommand App: no flags of its own beyond clap's built-in help (and
\* built-in version unless DisableVersion), no AllowExternalSubcommands.
SubCommandApp(n) ==
  [name |-> n,
   flags |-> {},
   opts |-> {},
   subcommands |-> {},
   positionals |->
     CASE n = "info" -> <<Positional("file", FALSE)>>
       [] n = "eval" -> <<Positional("code", FALSE)>>
       [] n = "fmt" -> <<Positional("files", TRUE)>>
       [] OTHER -> <<>>,
   external |-> FALSE,
   builtin_version |-> (n = "<script>")]

\* A variant of ShortArgName that gives -r to allow-read.
ShortArgNameRead(app, c) ==
  IF app.name # "deno" THEN ""
  ELSE CASE c = "v" -> "version"
         [] c = "A" -> "allow-all"
         [] c = "D" -> "log-debug"
         [] c = "r" -> "allow-read"
         [] OTHER -> ""

\* .short(c) of the top-level args; subcommands declare none.
ShortArgName(app, c) ==
  IF app.name # "deno" THEN ""
  ELSE CASE c = "v" -> "version"
         [] c = "A" -> "allow-all"
         [] c = "D" -> "log-debug"
         [] c = "r" -> "reload"
         [] OTHER -> ""

---------------------------------------------------------------------------
\* clap's ArgMatcher / ArgMatches.

\* The matched args: a map from the names of the args seen to their number
\* of occurrences and their values.
EmptyArgs == [n \in {} |-> [occurs |-> 0, vals |-> <<>>]]

\* ArgMatcher::inc_occurrence_of
inc_occurrence_of(args, n) ==
  IF n \in DOMAIN args THEN [args EXCEPT ![n].occurs = @ + 1]
  ELSE (n :> [occurs |-> 1, vals |-> <<>>]) @@ args

\* ArgMatcher::add_val_to
add_val_to(args, n, v) ==
  IF n \in DOMAIN args THEN [args EXCEPT ![n].vals = Append(@, v)]
  ELSE (n :> [occurs |-> 0, vals |-> <<v>>]) @@ args

RECURSIVE add_vals_to(_, _, _)
add_vals_to(args, n, vs) ==
  IF vs = <<>> THEN args
  ELSE add_vals_to(add_val_to(args, n, Head(vs)), n, Tail(vs))

\* ArgMatches::is_present: true for a matched arg and also for the name of
\* the matched subcommand.
is_present(m, n) ==
  \/ (m.sub # <<>> /\ m.sub[1].name = n)
  \/ n \in DOMAIN m.args

\* A variant of values_of that yields the first value only, as value_of does.
values_of_first(m, n) ==
  IF n \in DOMAIN m.args THEN <<SubSeq(m.args[n].vals, 1, 1)>> ELSE <<>>

\* ArgMatches::values_of
values_of(m, n) ==
  IF n \in DOMAIN m.args THEN <<m.args[n].vals>> ELSE <<>>

\* ArgMatches::value_of
value_of(m, n) ==
  IF n \in DOMAIN m.args /\ m.args[n].vals # <<>>
  THEN <<m.args[n].vals[1]>> ELSE <<>>

---------------------------------------------------------------------------
\* clap's Parser.

\* Parser::is_new_arg (no AllowLeadingHyphen, no pending option value)
is_new_arg(t) == Lex(t).kind \in {"long", "short", "dashdash"}

\* Parser::possible_subcommand
possible_subcommand(app, t) == t \in app.subcommands

\* Parser::parse_opt for an option with require_equals (which also forbids
\* empty values): a missing "=", or an empty value, is an EmptyValue error.
parse_opt(args, n, lx) ==
  IF ~lx.eq \/ lx.val = "" THEN [err |-> "EmptyValue", args |-> args]
  ELSE [err |-> "", args |-> inc_occurrence_of(add_val_to(args, n, lx.val), n)]

\* Parser::parse_long_arg
parse_long_arg(app, args, lx) ==
  IF lx.name \in app.opts THEN parse_opt(args, lx.name, lx)
  ELSE IF lx.name \in app.flags
    THEN [err |-> "", args |-> inc_occurrence_of(args, lx.name)]
  ELSE IF lx.name = "help" THEN [err |-> "HelpDisplayed", args |-> args]
  ELSE IF lx.name = "version" /\ app.builtin_version
    THEN [err |-> "VersionDisplayed", args |-> args]
  ELSE [err |-> "UnknownArgument", args |-> args]

\* Parser::parse_short_arg: every character of the cluster is a short flag.
RECURSIVE parse_short_arg(_, _, _)
parse_short_arg(app, args, cs) ==
  IF cs = <<>> THEN [err |-> "", args |-> args]
  ELSE LET c == Head(cs)
           n == ShortArgName(app, c)
       IN IF n # "" THEN parse_short_arg(app, inc_occurrence_of(args, n), Tail(cs))
          ELSE IF c = "h" THEN [err |-> "HelpDisplayed", args |-> args]
          ELSE IF c = "V" /\ app.builtin_version
            THEN [err |-> "VersionDisplayed", args |-> args]
          ELSE [err |-> "UnknownArgument", args |-> args]

ParserStart ==
  [err |-> "", args |-> EmptyArgs, trailing |-> FALSE, pos_counter |-> 1,
   subcmd_name |-> <<>>, next |-> 0, sub |-> <<>>]

\* The token loop of Parser::get_matches_with.
RECURSIVE ParseLoop(_, _, _, _)
ParseLoop(app, it, i, st) ==
  IF i > Len(it) THEN st
  ELSE
    LET arg_os == it[i]
        lx == Lex(arg_os)
    IN
    IF ~st.trailing /\ lx.kind = "dashdash"
      THEN ParseLoop(app, it, i + 1, [st EXCEPT !.trailing = TRUE])
    ELSE IF ~st.trailing /\ possible_subcommand(app, arg_os)
      THEN [st EXCEPT !.subcmd_name = <<arg_os>>, !.next = i + 1]
    ELSE IF ~st.trailing /\ is_new_arg(arg_os)
      THEN LET r == IF lx.kind = "long"
                      THEN parse_long_arg(app, st.args, lx)
                      ELSE parse_short_arg(app, st.args, lx.chars)
           IN IF r.err # "" THEN [st EXCEPT !.err = r.err]
              ELSE ParseLoop(app, it, i + 1, [st EXCEPT !.args = r.args])
    ELSE IF st.pos_counter <= Len(app.positionals)
      THEN LET p == app.positionals[st.pos_counter]
           IN ParseLoop(app, it, i + 1,
                [st EXCEPT !.args = inc_occurrence_of(add_val_to(@, p.name, arg_os), p.name),
                           !.pos_counter = IF p.multiple THEN @ ELSE @ + 1])
    ELSE IF app.external
      THEN [st EXCEPT !.sub =
              <<[name |-> arg_os,
                 matches |-> [args |-> add_vals_to(EmptyArgs, "", SubSeq(it, i + 1, Len(it))),
                              sub |-> <<>>]]>>]
    ELSE [st EXCEPT !.err = "UnknownArgument"]

\* Validator::validate: required args, then occurrences of non-multiple args.
validate(app, args) ==
  IF \E k \in 1..Len(app.positionals) :
       app.positionals[k].required /\ app.positionals[k].name \notin DOMAIN args
    THEN "MissingRequiredArgument"
  ELSE IF \E n \in DOMAIN args :
       /\ args[n].occurs > 1
       /\ ~(\E k \in 1..Len(app.positionals) :
              app.positionals[k].name = n /\ app.positionals[k].multiple)
    THEN "UnexpectedMultipleUsage"
  ELSE ""

NoMatches == [args |-> EmptyArgs, sub |-> <<>>]

\* Parser::get_matches_with: the loop, the selected subcommand's own parse
\* of the remaining tokens, then validation.
RECURSIVE get_matches_with(_, _)
get_matches_with(app, it) ==
  LET st == ParseLoop(app, it, 1, ParserStart) IN
  IF st.err # "" THEN [err |-> st.err, matches |-> NoMatches]
  ELSE
    LET sc == IF st.subcmd_name = <<>> THEN [err |-> "", matches |-> NoMatches]
              ELSE get_matches_with(SubCommandApp(st.subcmd_name[1]),
                                    SubSeq(it, st.next, Len(it)))
        sub == IF st.subcmd_name = <<>> THEN st.sub
               ELSE <<[name |-> st.subcmd_name[1], matches |-> sc.matches]>>
        v == validate(app, st.args)
    IN IF sc.err # "" THEN [err |-> sc.err, matches |-> NoMatches]
       ELSE IF v # "" THEN [err |-> v, matches |-> NoMatches]
       ELSE [err |-> "", matches |-> [args |-> st.args, sub |-> sub]]

\* App::get_matches_from: the first item is the binary name; a clap error
\* (help and version output included) ends in Error::exit.
get_matches_from(args) == get_matches_with(create_cli_app, Tail(args))

---------------------------------------------------------------------------
\* cli/flags.rs proper.

\* DenoFlags::default()
DenoFlagsDefault ==
  [log_debug |-> FALSE, version |-> FALSE, reload |-> FALSE,
   allow_read |-> FALSE, allow_write |-> FALSE, allow_net |-> FALSE,
   allow_env |-> FALSE, allow_run |-> FALSE, allow_high_precision |-> FALSE,
   no_prompts |-> FALSE, types |-> FALSE, prefetch |-> FALSE,
   info |-> FALSE, fmt |-> FALSE, eval |-> FALSE]

\* A variant of BehaviourFlags that looks for "no-prompts", the name of the
\* field, where the arg is named "no-prompt".
BehaviourFlagsFieldName(m) ==
  [log_debug |-> is_present(m, "log-debug"),
   version |-> is_present(m, "version"),
   reload |-> is_present(m, "reload"),
   no_prompts |-> is_present(m, "no-prompts"),
   types |-> is_present(m, "types"),
   prefetch |-> is_present(m, "prefetch")]

\* DenoFlags::from, the fields set from one arg each.
BehaviourFlags(m) ==
  [log_debug |-> is_present(m, "log-debug"),
   version |-> is_present(m, "version"),
   reload |-> is_present(m, "reload"),
   no_prompts |-> is_present(m, "no-prompt"),
   types |-> is_present(m, "types"),
   prefetch |-> is_present(m, "prefetch")]

\* A variant of PermissionFlags whose allow-all block leaves out allow_write.
PermissionFlagsNoWrite(m) ==
  LET all == is_present(m, "allow-all") IN
  [allow_read |-> is_present(m, "allow-read") \/ all,
   allow_write |-> is_present(m, "allow-write"),
   allow_net |-> is_present(m, "allow-net") \/ all,
   allow_env |-> is_present(m, "allow-env") \/ all,
   allow_run |-> is_present(m, "allow-run") \/ all,
   allow_high_precision |-> is_present(m, "allow-high-precision") \/ all]

\* DenoFlags::from, the permission fields: each from its own arg, and all
\* six from allow-all.
PermissionFlags(m) ==
  LET all == is_present(m, "allow-all") IN
  [allow_read |-> is_present(m, "allow-read") \/ all,
   allow_write |-> is_present(m, "allow-write") \/ all,
   allow_net |-> is_present(m, "allow-net") \/ all,
   allow_env |-> is_present(m, "allow-env") \/ all,
   allow_run |-> is_present(m, "allow-run") \/ all,
   allow_high_precision |-> is_present(m, "allow-high-precision") \/ all]

\* A variant of ModeFlags whose fmt block was copied from the info block
\* and still sets info as well.
ModeFlagsCopied(m) ==
  [info |-> is_present(m, "info") \/ is_present(m, "fmt"),
   fmt |-> is_present(m, "fmt"),
   eval |-> is_present(m, "eval")]

\* DenoFlags::from, the mode fields.
ModeFlags(m) ==
  [info |-> is_present(m, "info"),
   fmt |-> is_present(m, "fmt"),
   eval |-> is_present(m, "eval")]

\* impl From<ArgMatches> for DenoFlags
DenoFlagsFrom(m) ==
  LET b == BehaviourFlags(m)
      p == PermissionFlags(m)
      s == ModeFlags(m)
  IN
  [log_debug |-> b.log_debug, version |-> b.version, reload |-> b.reload,
   allow_read |-> p.allow_read, allow_write |-> p.allow_write,
   allow_net |-> p.allow_net, allow_env |-> p.allow_env,
   allow_run |-> p.allow_run, allow_high_precision |-> p.allow_high_precision,
   no_prompts |-> b.no_prompts, types |-> b.types, prefetch |-> b.prefetch,
   info |-> s.info, fmt |-> s.fmt, eval |-> s.eval]

\* One arm of `match matches.subcommand()` that unwraps a captured value:
\* a missing value makes Option::unwrap panic.
UnwrapInto(rest, opt) ==
  IF opt = <<>> THEN [panic |-> TRUE, rest_argv |-> rest]
  ELSE [panic |-> FALSE, rest_argv |-> rest \o opt[1]]

\* A variant of ScriptArm without the check for extra arguments.
ScriptArmNoArgs(script, script_match, rest) == rest \o <<script>>

\* The (script, Some(script_match)) arm: the script, then its arguments if
\* script_match.is_present("").
ScriptArm(script, script_match, rest) ==
  IF is_present(script_match, "")
    THEN (rest \o <<script>>) \o values_of(script_match, "")[1]
    ELSE rest \o <<script>>

\* match matches.subcommand() { ... }: extends rest_argv.
MatchSubcommand(m, rest) ==
  IF m.sub = <<>> THEN [panic |-> FALSE, rest_argv |-> rest]
  ELSE
    LET name == m.sub[1].name
        sm == m.sub[1].matches
        one(o) == IF o = <<>> THEN <<>> ELSE <<o>>
    IN
    CASE name = "eval" -> UnwrapInto(rest, one(value_of(sm, "code")))
      [] name = "info" -> UnwrapInto(rest, one(value_of(sm, "file")))
      [] name = "fmt" -> UnwrapInto(rest, values_of(sm, "files"))
      [] OTHER -> [panic |-> FALSE, rest_argv |-> ScriptArm(name, sm, rest)]

\* if matches.is_present("v8-options") { v8_set_flags(["deno", "--v8-options"]) }
ForwardV8Options(matches, calls) ==
  IF is_present(matches, "v8-options")
    THEN Append(calls, <<"deno", "--v8-options">>)
    ELSE calls

\* Vec::insert(index, element), index counted from 0; panics past the end.
VecInsert(v, index, x) ==
  IF index > Len(v) THEN <<>>
  ELSE <<SubSeq(v, 1, index) \o <<x>> \o SubSeq(v, index + 1, Len(v))>>

\* if matches.is_present("v8-flags") { ... v8_flags.insert(1, "deno"); v8_set_flags(v8_flags) }
ForwardV8Flags(matches, calls) ==
  IF ~is_present(matches, "v8-flags") THEN [panic |-> FALSE, calls |-> calls]
  ELSE
    LET vals == values_of(matches, "v8-flags")
        ins == IF vals = <<>> THEN <<>> ELSE VecInsert(vals[1], 1, "deno")
    IN IF ins = <<>> THEN [panic |-> TRUE, calls |-> calls]
       ELSE [panic |-> FALSE, calls |-> Append(calls, ins[1])]

\* set_flags as a function of its argument: how the call ends ("Ok": it
\* returns Ok((flags, rest)); "Exit": clap ends the process; "Panic": an
\* unwrap on None), and what it returned and forwarded.
Outcome(o, k, f, r, c) ==
  [outcome |-> o, kind |-> k, flags |-> f, rest |-> r, v8_calls |-> c]

set_flags(a) ==
  LET p == get_matches_from(a) IN
  IF p.err # "" THEN Outcome("Exit", p.err, DenoFlagsDefault, <<>>, <<>>)
  ELSE
    LET s == MatchSubcommand(p.matches, <<"deno">>)
        c1 == ForwardV8Options(p.matches, <<>>)
        c2 == ForwardV8Flags(p.matches, c1)
    IN IF s.panic THEN Outcome("Panic", "unwrap", DenoFlagsDefault, <<>>, <<>>)
       ELSE IF c2.panic THEN Outcome("Panic", "unwrap", DenoFlagsDefault, <<>>, c1)
       ELSE Outcome("Ok", "", DenoFlagsFrom(p.matches), s.rest_argv, c2.calls)

---------------------------------------------------------------------------
\* The bounded inputs.

CoreTokens ==
  {"--allow-net", "--allow-all", "--reload", "--log-debug", "-A", "-Dr",
   "--v8-flags=a,b", "--title", "--", "info", "eval", "fmt", "<script>",
   "gist.ts", "X", "types"}

RareTokens == (DOMAIN Lexicon \ CoreTokens) \ {"deno"}

Tokens == CoreTokens \cup RareTokens

SeqsUpTo(S, n) == UNION {[1..k -> S] : k \in 0..n}

Argvs ==
  {<<"deno">> \o s : s \in SeqsUpTo(CoreTokens, MaxArgs)}
  \cup {<<"deno", t>> \o s : t \in RareTokens, s \in SeqsUpTo(CoreTokens, MaxRareArgs - 1)}

---------------------------------------------------------------------------
\* One call of set_flags, statement by statement.

VARIABLES args, pc, matches, rest_argv, v8_calls, flags, kind

vars == <<args, pc, matches, rest_argv, v8_calls, flags, kind>>

Init ==
  /\ args \in Argvs
  /\ pc = "start"
  /\ matches = NoMatches
  /\ rest_argv = <<>>
  /\ v8_calls = <<>>
  /\ flags = DenoFlagsDefault
  /\ kind = ""

\* let mut rest_argv = vec!["deno"]; let matches = cli_app.get_matches_from(args);
GetMatches ==
  /\ pc = "start"
  /\ LET p == get_matches_from(args) IN
       /\ p.err = ""
       /\ matches' = p.matches
  /\ rest_argv' = <<"deno">>
  /\ pc' = "parsed"
  /\ UNCHANGED <<args, v8_calls, flags, kind>>

\* get_matches_from on a clap error: Error::exit ends the process.
GetMatchesExit ==
  /\ pc = "start"
  /\ LET p == get_matches_from(args) IN
       /\ p.err # ""
       /\ kind' = p.err
  /\ rest_argv' = <<"deno">>
  /\ pc' = "exited"
  /\ UNCHANGED <<args, matches, v8_calls, flags>>

\* match matches.subcommand() { ... }
Subcommand ==
  /\ pc = "parsed"
  /\ LET s == MatchSubcommand(matches, rest_argv) IN
       /\ rest_argv' = s.rest_argv
       /\ pc' = IF s.panic THEN "panicked" ELSE "assembled"
       /\ kind' = IF s.panic THEN "unwrap" ELSE kind
  /\ UNCHANGED <<args, matches, v8_calls, flags>>

V8Options ==
  /\ pc = "assembled"
  /\ v8_calls' = ForwardV8Options(matches, v8_calls)
  /\ pc' = "v8_options_done"
  /\ UNCHANGED <<args, matches, rest_argv, flags, kind>>

V8Flags ==
  /\ pc = "v8_options_done"
  /\ LET c == ForwardV8Flags(matches, v8_calls) IN
       /\ v8_calls' = c.calls
       /\ pc' = IF c.panic THEN "panicked" ELSE "v8_flags_done"
       /\ kind' = IF c.panic THEN "unwrap" ELSE kind
  /\ UNCHANGED <<args, matches, rest_argv, flags>>

\* let flags = DenoFlags::from(matches); Ok((flags, rest_argv))
Return ==
  /\ pc = "v8_flags_done"
  /\ flags' = DenoFlagsFrom(matches)
  /\ pc' = "returned"
  /\ UNCHANGED <<args, matches, rest_argv, v8_calls, kind>>

Next ==
  \/ GetMatches
  \/ GetMatchesExit
  \/ Subcommand
  \/ V8Options
  \/ V8Flags
  \/ Return

Spec == Init /\ [][Next]_vars

\* The statement-by-statement run ends as set_flags(args) says.
RunAgreesWithFunction ==
  LET r == set_flags(args) IN
  /\ pc = "returned" =>
       /\ r.outcome = "Ok" /\ r.flags = flags /\ r.rest = rest_argv
       /\ r.v8_calls = v8_calls
  /\ pc = "exited" => r.outcome = "Exit" /\ r.kind = kind
  /\ pc = "panicked" => r.outcome = "Panic" /\ r.v8_calls = v8_calls

---------------------------------------------------------------------------
\* Vocabulary of the properties, read off the command line itself.

Returned == pc = "returned"

SubcommandNames == {"info", "eval", "fmt"}

PermissionFields ==
  {"allow_read", "allow_write", "allow_net", "allow_env", "allow_run",
   "allow_high_precision"}

PermissionLongs ==
  <<"--allow-read", "--allow-write", "--allow-net", "--allow-env",
    "--allow-run", "--allow-high-precision">>

ShortLetters == {"v", "A", "D", "r"}

\* A token spelled as one of the declared flags.
DeclaredFlag(t) ==
  LET lx == Lex(t) IN
  \/ lx.kind = "long" /\ lx.name \in TopFlags /\ ~lx.eq
  \/ lx.kind = "long" /\ lx.name = "v8-flags" /\ lx.eq /\ lx.val # ""
  \/ lx.kind = "short" /\ \A k \in 1..Len(lx.chars) : lx.chars[k] \in ShortLetters

\* Index of the first token after the program name that is not a declared
\* flag; 0 if there is none.
RECURSIVE FirstNonFlagFrom(_, _)
FirstNonFlagFrom(a, i) ==
  IF i > Len(a) THEN 0
  ELSE IF DeclaredFlag(a[i]) THEN FirstNonFlagFrom(a, i + 1)
  ELSE i

FirstNonFlag(a) == FirstNonFlagFrom(a, 2)

NoSelection(a) == FirstNonFlag(a) = 0

ScriptMode(a) ==
  FirstNonFlag(a) # 0 /\ a[FirstNonFlag(a)] \notin SubcommandNames

SubcommandMode(a, n) == FirstNonFlag(a) # 0 /\ a[FirstNonFlag(a)] = n

\* The tokens after position i.
After(a, i) == SubSeq(a, i + 1, Len(a))

\* The tokens up to position i.
UpTo(a, i) == SubSeq(a, 1, i)

\* k is a flag position: no subcommand, script or "--" comes before it.
FlagPosition(a, k) == FirstNonFlag(a) = 0 \/ k < FirstNonFlag(a)

\* s without its first "--".
RECURSIVE StripDashDash(_)
StripDashDash(s) ==
  IF s = <<>> THEN <<>>
  ELSE IF Head(s) = "--" THEN Tail(s)
  ELSE <<Head(s)>> \o StripDashDash(Tail(s))

\* No option-like token stands before the first "--" of s.
RECURSIVE OperandsOnly(_)
OperandsOnly(s) ==
  IF s = <<>> THEN TRUE
  ELSE IF Head(s) = "--" THEN TRUE
  ELSE Lex(Head(s)).kind = "word" /\ OperandsOnly(Tail(s))

\* a with the token at position k replaced by the tokens of s.
Splice(a, k, s) == (SubSeq(a, 1, k - 1) \o s) \o After(a, k)

---------------------------------------------------------------------------
\* C1 (as claimed): in default script-run mode the residual argv is "deno",
\* the script path and every token after it, in order and unmodified, and
\* the tokens after the script path set no flag.
C1_PassthroughAnyScript ==
  (Returned /\ ScriptMode(args)) =>
    LET i == FirstNonFlag(args) IN
    /\ rest_argv = <<"deno">> \o SubSeq(args, i, Len(args))
    /\ flags = set_flags(UpTo(args, i)).flags

\* C1 (amended): the same, for a script path that is neither the "--"
\* separator nor the declared placeholder subcommand name "<script>".
C1_Passthrough ==
  (Returned /\ ScriptMode(args)
     /\ args[FirstNonFlag(args)] \notin {"--", "<script>"}) =>
    LET i == FirstNonFlag(args) IN
    /\ rest_argv = <<"deno">> \o SubSeq(args, i, Len(args))
    /\ flags = set_flags(UpTo(args, i)).flags

\* A script followed by a token spelled like a declared flag has returned.
C1_Witness ==
  /\ Returned /\ ScriptMode(args)
  /\ args[FirstNonFlag(args)] = "gist.ts"
  /\ \E k \in (FirstNonFlag(args) + 1)..Len(args) : DeclaredFlag(args[k])

\* C7: the residual argv of an accepted argv starts with "deno"; it is
\* <<"deno">> with no selection, "deno" and the one captured value for eval
\* and info, "deno" and the captured files in order for fmt, and the
\* matching mode flag is the one that is set.
C7_ResidualBySubcommand ==
  Returned =>
    LET i == FirstNonFlag(args)
        captured == StripDashDash(After(args, i))
        mode(n) == [info |-> n = "info", eval |-> n = "eval", fmt |-> n = "fmt"]
        modes == [info |-> flags.info, eval |-> flags.eval, fmt |-> flags.fmt]
    IN
    /\ rest_argv # <<>> /\ rest_argv[1] = "deno"
    /\ (NoSelection(args) \/ (args[i] = "--" /\ i = Len(args))) => rest_argv = <<"deno">>
    /\ \A n \in {"eval", "info"} :
         SubcommandMode(args, n) =>
           /\ Len(captured) = 1
           /\ rest_argv = <<"deno", captured[1]>>
           /\ modes = mode(n)
    /\ SubcommandMode(args, "fmt") =>
         /\ captured # <<>>
         /\ rest_argv = <<"deno">> \o captured
         /\ modes = mode("fmt")

\* fmt has returned with two files.
C7_Witness ==
  /\ Returned /\ SubcommandMode(args, "fmt")
  /\ Len(rest_argv) = 3 /\ rest_argv[2] # rest_argv[3]

\* C9: at most one of info, eval, fmt is set, and none of them in default
\* script-run mode or with no selection.
C9_OneModeSelected ==
  Returned =>
    /\ Cardinality({f \in {"info", "eval", "fmt"} : flags[f]}) <= 1
    /\ (NoSelection(args) \/ ScriptMode(args)) =>
         ~flags.info /\ ~flags.eval /\ ~flags.fmt

\* A script run has returned with some flag set.
C9_Witness ==
  /\ Returned /\ ScriptMode(args) /\ Len(rest_argv) >= 2
  /\ flags # DenoFlagsDefault

\* C10 (as claimed): in default script-run mode the flags are those of the
\* tokens before the script path alone, whatever the script path is called.
C10_ScriptPathSetsNoFlag ==
  (Returned /\ ScriptMode(args)) =>
    flags = set_flags(UpTo(args, FirstNonFlag(args) - 1)).flags

\* Whether a second call agrees with the finished one of this state: both
\* return, with the same flags and the same residual argv, or neither does.
SameResult(r) ==
  /\ pc \in {"returned", "exited", "panicked"}
  /\ (r.outcome = "Ok") = Returned
  /\ Returned => r.flags = flags /\ r.rest = rest_argv

Umbrella == {"--allow-all", "-A"}

\* One of the six permission flags is given in a flag position of a.
SomePermissionGiven(a) ==
  \E j \in 2..Len(a) :
    FlagPosition(a, j) /\ \E q \in 1..Len(PermissionLongs) : a[j] = PermissionLongs[q]

\* C2 (as claimed): for every accepted argv, replacing the umbrella flag
\* (read here as one standing in a flag position) by the six permission
\* flags gives the same flags and the same residual argv.
C2_UmbrellaReplaceableAlways ==
  Returned =>
    \A k \in 2..Len(args) :
      (args[k] \in Umbrella /\ FlagPosition(args, k)) =>
        SameResult(set_flags(Splice(args, k, PermissionLongs)))

\* C2 (amended): for every accepted argv whose umbrella flag stands in a
\* flag position and that gives none of the six permission flags itself,
\* replacing the umbrella flag by the six gives the same flags and residual
\* argv; and for every accepted argv with the umbrella flag in a flag
\* position, the flags are those of the argv without it with exactly the six
\* permission fields made true, and the residual argv is the same.
C2_UmbrellaIsUnionOfSix ==
  Returned =>
    \A k \in 2..Len(args) :
      (args[k] \in Umbrella /\ FlagPosition(args, k)) =>
        LET without == set_flags(Splice(args, k, <<>>)) IN
        /\ ~SomePermissionGiven(args) =>
             SameResult(set_flags(Splice(args, k, PermissionLongs)))
        /\ without.outcome = "Ok"
        /\ without.rest = rest_argv
        /\ flags = [f \in DOMAIN flags |-> without.flags[f] \/ f \in PermissionFields]

\* The umbrella flag and one of the six have been given before a script.
C2_Witness ==
  /\ Returned /\ Len(rest_argv) = 2
  /\ \E k \in 2..Len(args) : args[k] \in Umbrella /\ FlagPosition(args, k)
  /\ SomePermissionGiven(args)

\* The field of DenoFlags a boolean flag is named after, if there is one.
FieldsOf(n) ==
  CASE n = "log-debug" -> {"log_debug"}
    [] n = "no-prompt" -> {"no_prompts"}
    [] n = "allow-read" -> {"allow_read"}
    [] n = "allow-write" -> {"allow_write"}
    [] n = "allow-net" -> {"allow_net"}
    [] n = "allow-env" -> {"allow_env"}
    [] n = "allow-run" -> {"allow_run"}
    [] n = "allow-high-precision" -> {"allow_high_precision"}
    [] n \in {"version", "reload", "types", "prefetch"} -> {n}
    [] OTHER -> {}

\* args is "deno" and the long form of one boolean flag of the catalog.
OnlyLongFlag ==
  /\ Len(args) = 2
  /\ Lex(args[2]).kind = "long" /\ ~Lex(args[2]).eq
  /\ Lex(args[2]).name \in TopFlags

LongOf(c) ==
  CASE c = "v" -> "--version"
    [] c = "A" -> "--allow-all"
    [] c = "D" -> "--log-debug"
    [] c = "r" -> "--reload"

Orders(n) == {p \in [1..n -> 1..n] : \A x, y \in 1..n : p[x] = p[y] => x = y}

\* C4: a token of combined short flags in a flag position gives the same
\* result as the same flags given as separate long flags, in any order.
C4_CombinedShortFlags ==
  pc \in {"returned", "exited", "panicked"} =>
    \A k \in 2..Len(args) :
      (Lex(args[k]).kind = "short" /\ DeclaredFlag(args[k]) /\ FlagPosition(args, k)) =>
        LET cs == Lex(args[k]).chars IN
        \A p \in Orders(Len(cs)) :
          SameResult(set_flags(Splice(args, k, [x \in 1..Len(cs) |-> LongOf(cs[p[x]])])))

\* -Dr has been given before a script and both of its flags are set.
C4_Witness ==
  /\ Returned /\ Len(args) >= 3 /\ args[2] = "-Dr" /\ Len(rest_argv) >= 2
  /\ flags.log_debug /\ flags.reload

ParseFailures == {"EmptyValue", "MissingRequiredArgument", "UnknownArgument"}

\* C5 (as claimed): a parse failure is returned to the caller; set_flags
\* does not end the process on it.
C5_ParseFailureIsReturned ==
  ~(pc = "exited" /\ kind \in ParseFailures)

\* C6: info and eval are accepted with exactly one positional and fmt with
\* one or more; with none the parse fails for a missing required argument,
\* and info and eval fail with more than one.
C6_PositionalArity ==
  \A n \in SubcommandNames :
    LET i == FirstNonFlag(args)
        given == StripDashDash(After(args, i))
    IN
    (/\ pc \in {"returned", "exited", "panicked"}
     /\ SubcommandMode(args, n)
     /\ set_flags(UpTo(args, i - 1)).outcome = "Ok"
     /\ OperandsOnly(After(args, i))) =>
      /\ given = <<>> => pc = "exited" /\ kind = "MissingRequiredArgument"
      /\ Len(given) = 1 => Returned
      /\ Len(given) > 1 => IF n = "fmt" THEN Returned ELSE pc = "exited"

\* fmt without files has failed.
C6_Witness ==
  /\ pc = "exited" /\ kind = "MissingRequiredArgument"
  /\ args[Len(args)] = "fmt" /\ SubcommandMode(args, "fmt")

\* The comma-separated tokens of a v8-flags value.
CommaSplit(v) ==
  CASE v = "a,b" -> <<"a", "b">>
    [] v = "a" -> <<"a">>

\* C8 (as claimed): with --v8-flags=<v1,v2,...> the list forwarded to
\* v8_set_flags is "deno" followed by v1, v2, ... in order; forwarding does
\* not panic and sets no flag.
C8_V8FlagsForwardedSplit ==
  \A k \in 2..Len(args) :
    (/\ Returned
     /\ FlagPosition(args, k)
     /\ Lex(args[k]).kind = "long" /\ Lex(args[k]).name = "v8-flags") =>
      /\ \E c \in 1..Len(v8_calls) :
           v8_calls[c] = <<"deno">> \o CommaSplit(Lex(args[k]).val)
      /\ flags = set_flags(Splice(args, k, <<>>)).flags

====
